---- MODULE Spec2Model ----
(***************************************************************************)
(* Model of script/self_driving/model_server.py: the ModelServer command   *)
(* protocol (envelope and body parsing), the command dispatcher, the       *)
(* per-handler model cache and the run_loop lifecycle.                     *)
(*                                                                         *)
(* Strings on the wire are sequences of symbols.  A symbol is a single     *)
(* character ("0", "1", "2", "-", "a") or a chunk of JSON text that        *)
(* json.loads turns into one JSON object (its name spells the object).     *)
(* Python exceptions are values: every modelled function returns a record  *)
(* whose field exc is "" on a normal return and the exception class        *)
(* otherwise.                                                              *)
(***************************************************************************)
EXTENDS Integers, Sequences, FiniteSets, TLC

(***************************************************************************)
(* Bounds                                                                  *)
(***************************************************************************)
\* longest id prefix (characters before the body) of a payload given to the parser
MaxPre == 4
\* messages the peer sends in one run
MaxMsgs == 3
\* messages waiting in the socket at one time
MaxInbox == 2
\* artifact versions a run can write
MaxVer == 2
\* largest magnitude of an id written into an envelope
MaxId == 12

(***************************************************************************)
(* Characters and Python's str.split / int                                 *)
(***************************************************************************)
DigitChars == <<"0", "1", "2", "3", "4", "5", "6", "7", "8", "9">>
Digits == {DigitChars[i] : i \in 1..10}
\* the characters id prefixes are built from
IdChars == {"0", "1", "2", "-", "a"}

DigitVal == [c \in Digits |-> (CHOOSE i \in 1..10 : DigitChars[i] = c) - 1]

\* index of the first sep in s, 0 when there is none (str.find + 1)
IndexOf(s, sep) ==
    IF \E i \in 1..Len(s) : s[i] = sep
    THEN CHOOSE i \in 1..Len(s) : s[i] = sep /\ \A j \in 1..(i - 1) : s[j] # sep
    ELSE 0

\* payload.split('-'): split on every separator, the third token ends at the third one
Split2_EveryDash(s) ==
    LET i == IndexOf(s, "-") IN
    IF i = 0 THEN <<s>>
    ELSE LET rest == SubSeq(s, i + 1, Len(s))
             j == IndexOf(rest, "-")
         IN IF j = 0 THEN <<SubSeq(s, 1, i - 1), rest>>
            ELSE LET body == SubSeq(rest, j + 1, Len(rest))
                     k == IndexOf(body, "-")
                 IN <<SubSeq(s, 1, i - 1), SubSeq(rest, 1, j - 1),
                      IF k = 0 THEN body ELSE SubSeq(body, 1, k - 1)>>

\* payload.split('-', 2): split on the first two separators only
Split2(s) ==
    LET i == IndexOf(s, "-") IN
    IF i = 0 THEN <<s>>
    ELSE LET rest == SubSeq(s, i + 1, Len(s))
             j == IndexOf(rest, "-")
         IN IF j = 0 THEN <<SubSeq(s, 1, i - 1), rest>>
            ELSE <<SubSeq(s, 1, i - 1), SubSeq(rest, 1, j - 1),
                   SubSeq(rest, j + 1, Len(rest))>>

RECURSIVE DecVal(_)
DecVal(tok) ==
    IF tok = <<>> THEN 0
    ELSE 10 * DecVal(SubSeq(tok, 1, Len(tok) - 1)) + DigitVal[tok[Len(tok)]]

\* str(n) of an int, as an f-string formats it
RECURSIVE StrOfNat(_)
StrOfNat(n) ==
    IF n < 10 THEN <<DigitChars[n + 1]>>
    ELSE Append(StrOfNat(n \div 10), DigitChars[(n % 10) + 1])

StrOfInt(n) == IF n < 0 THEN <<"-">> \o StrOfNat(-n) ELSE StrOfNat(n)

\* f"{send_id}-{recv_id}-{json_result}": the string _send_msg writes
WireMsg(send_id, recv_id, json_result) ==
    StrOfInt(send_id) \o <<"-">> \o StrOfInt(recv_id) \o <<"-">> \o json_result

\* int(tok): ValueError unless tok is a non-empty run of digits
\* (a token never holds '-': split took it)
PyInt(tok) ==
    IF tok # <<>> /\ \A i \in 1..Len(tok) : tok[i] \in Digits
    THEN [exc |-> "", val |-> DecVal(tok)]
    ELSE [exc |-> "ValueError", val |-> 0]

(***************************************************************************)
(* JSON bodies.  A request body is a JSON object with an optional "cmd"    *)
(* and an optional "data"; data is a mapping given by the set of keys it   *)
(* holds and the values of the keys the server looks at.                   *)
(***************************************************************************)
KeyOrder == <<"message", "type", "methods", "input_path", "save_path", "model_path",
              "features", "opunit", "interval_micro_sec", "model_names",
              "ou_model_path", "pipeline_metrics_sample_rate">>

\* the path strings requests use; the working directory is /cwd
PathStrs == {"m1", "./m1", "/cwd/m1"}
Files == {"m1"}

\* the file a path string denotes
FileOf(s) == "m1"

\* str(Path(s).resolve()): every form of a file gives its absolute path
PathStr_Resolved(s) == "/cwd/m1"

\* str(Path(s)): pathlib drops a leading "./" and nothing else
PathStr(s) == IF s = "./m1" THEN "m1" ELSE s

CacheKeys == {PathStr(s) : s \in PathStrs}

\* class ModelType
ModelTypeNames == {"FORECAST", "OPERATING_UNIT", "INTERFERENCE"}

\* members of modeling.type.OpUnit that requests name
OpUnitNames == {"SEQ_SCAN"}

NoData == [isObj |-> FALSE, keys |-> {}, message |-> "", typeJson |-> "string",
           type |-> "", path |-> "", opunitJson |-> "string", opunit |-> ""]

Obj(keys, type, path, opunit) ==
    [isObj |-> TRUE, keys |-> keys, message |-> IF "message" \in keys THEN "hi" ELSE "",
     typeJson |-> "string", type |-> type, path |-> path,
     opunitJson |-> "string", opunit |-> opunit]

TrainKeys == [t \in ModelTypeNames |->
    IF t = "OPERATING_UNIT" THEN {"methods", "input_path", "save_path"}
    ELSE IF t = "INTERFERENCE"
         THEN {"methods", "input_path", "save_path", "ou_model_path",
               "pipeline_metrics_sample_rate"}
         ELSE {"input_path", "save_path", "methods", "interval_micro_sec"}]

InferKeys == [t \in ModelTypeNames |->
    IF t = "OPERATING_UNIT" THEN {"features", "opunit", "model_path"}
    ELSE IF t = "INTERFERENCE" THEN {"features", "model_path"}
         ELSE {"input_path", "model_names", "interval_micro_sec", "model_path"}]

\* data mappings of well-formed TRAIN requests
TrainData == {Obj(TrainKeys[t] \cup {"type"}, t, p, "") : t \in ModelTypeNames, p \in PathStrs}

\* data mappings of well-formed INFER requests
InferData ==
    {Obj(InferKeys[t] \cup {"type"}, t, p, IF t = "OPERATING_UNIT" THEN "SEQ_SCAN" ELSE "") :
        t \in ModelTypeNames, p \in PathStrs}

\* data mappings with something wrong in them
BadData ==
    {NoData, Obj({}, "", "", ""), Obj({"message"}, "", "", "")}
    \cup {Obj(TrainKeys["OPERATING_UNIT"] \cup InferKeys["OPERATING_UNIT"] \cup {"type"},
              "BOGUS", "m1", "SEQ_SCAN")}
    \cup {[Obj(TrainKeys["OPERATING_UNIT"] \cup InferKeys["OPERATING_UNIT"] \cup {"type"},
               "", "m1", "SEQ_SCAN") EXCEPT !.typeJson = j] : j \in {"number", "array"}}
    \cup {Obj(TrainKeys["OPERATING_UNIT"] \cup InferKeys["OPERATING_UNIT"], "", "m1", "SEQ_SCAN")}
    \cup {Obj({"type", "input_path", "save_path"}, "OPERATING_UNIT", "m1", "")}
    \cup {Obj({"type", "features", "model_path"}, "OPERATING_UNIT", "m1", "")}
    \cup {Obj(InferKeys["OPERATING_UNIT"] \cup {"type"}, "OPERATING_UNIT", "m1", "BOGUS")}
    \cup {[Obj(InferKeys["OPERATING_UNIT"] \cup {"type"}, "OPERATING_UNIT", "m1", "")
              EXCEPT !.opunitJson = "number"]}

DataRecs == TrainData \cup InferData \cup BadData

RECURSIVE KeysText(_, _)
KeysText(d, i) ==
    IF i > Len(KeyOrder) THEN ""
    ELSE LET k == KeyOrder[i]
             v == IF k = "message" THEN "=" \o d.message
                  ELSE IF k = "type"
                       THEN (IF d.typeJson = "string" THEN "=" \o d.type
                             ELSE "=<" \o d.typeJson \o ">")
                  ELSE IF k \in {"save_path", "model_path"} THEN "=" \o d.path
                  ELSE IF k = "opunit"
                       THEN (IF d.opunitJson = "string" THEN "=" \o d.opunit
                             ELSE "=<" \o d.opunitJson \o ">")
                  ELSE ""
         IN (IF k \in d.keys THEN k \o v \o "," ELSE "") \o KeysText(d, i + 1)

\* the JSON text of a data value
DataText(d) == IF d.isObj THEN "data:{" \o KeysText(d, 1) \o "}" ELSE "data:5"

\* the "cmd" member of a body: absent, a string, or a number
CmdParts == {[has |-> FALSE, json |-> "string", cmd |-> ""]}
            \cup {[has |-> TRUE, json |-> "string", cmd |-> c] :
                     c \in {"PRINT", "QUIT", "TRAIN", "INFER", "NOPE"}}
            \cup {[has |-> TRUE, json |-> "number", cmd |-> ""]}

CmdText(c) == IF ~c.has THEN ""
              ELSE IF c.json = "string" THEN "cmd:" \o c.cmd \o "," ELSE "cmd:7,"

NoCmd == [has |-> FALSE, json |-> "string", cmd |-> ""]

\* JSON objects: cmd member, data member (hasData FALSE: no "data" key)
DocRecs == {[c |-> c, hasData |-> TRUE, data |-> d] : c \in CmdParts, d \in DataRecs}
           \cup {[c |-> c, hasData |-> FALSE, data |-> NoData] : c \in CmdParts}

NoDoc == [c |-> NoCmd, hasData |-> FALSE, data |-> NoData]

\* json.dumps of a request object
DocText(doc) == "{" \o CmdText(doc.c) \o (IF doc.hasData THEN DataText(doc.data) ELSE "") \o "}"

DocTexts == {DocText(doc) : doc \in DocRecs}

\* json.dumps of a request object that has a first member "pad": -1 besides cmd and
\* data, the sign and the digit as characters of their own
PaddedText(doc) ==
    <<"{pad:", "-", "1", ",",
      CmdText(doc.c) \o (IF doc.hasData THEN DataText(doc.data) ELSE "") \o "}">>

DocTable == [n \in DocTexts |-> CHOOSE doc \in DocRecs : DocText(doc) = n]

\* JSON texts that are not objects
NonObjectTexts == {"[1]", "null"}

\* a JSON number text: digits without a leading zero, optional sign
IsNumberText(body) ==
    LET ds == IF body # <<>> /\ body[1] = "-" THEN Tail(body) ELSE body
    IN /\ ds # <<>>
       /\ \A i \in 1..Len(ds) : ds[i] \in Digits
       /\ (Len(ds) > 1 => ds[1] # "0")

\* json.loads(json_str): json is "object" for a dict and "other" for any other value
JsonLoads(body) ==
    IF Len(body) = 1 /\ body[1] \in DocTexts
    THEN [exc |-> "", json |-> "object", doc |-> DocTable[body[1]]]
    ELSE IF /\ Len(body) = 5
            /\ <<body[1], body[2], body[4]>> = <<"{pad:", "-", ",">>
            /\ body[3] \in Digits \ {"0"}
            /\ ("{" \o body[5]) \in DocTexts
    THEN [exc |-> "", json |-> "object", doc |-> DocTable["{" \o body[5]]]
    ELSE IF (Len(body) = 1 /\ body[1] \in NonObjectTexts) \/ IsNumberText(body)
    THEN [exc |-> "", json |-> "other", doc |-> NoDoc]
    ELSE [exc |-> "JSONDecodeError", json |-> "", doc |-> NoDoc]

(***************************************************************************)
(* Command.from_str, Message.from_json, ModelServer._parse_msg             *)
(***************************************************************************)
CommandNames == {"PRINT", "QUIT", "TRAIN", "INFER"}

\* from_str with a default command in place of the ValueError
from_str_Default(c) ==
    IF c.json = "string" /\ c.cmd \in CommandNames
    THEN [exc |-> "", cmd |-> c.cmd]
    ELSE [exc |-> "", cmd |-> "PRINT"]

\* Command.from_str(cmd_str); c is the JSON value of d["cmd"]
from_str(c) ==
    IF c.json = "string" /\ c.cmd \in CommandNames
    THEN [exc |-> "", cmd |-> c.cmd]
    ELSE [exc |-> "ValueError", cmd |-> ""]

\* a returned Message is [isNone |-> FALSE, cmd, data]; None is [isNone |-> TRUE]
NoneMsg == [exc |-> "", isNone |-> TRUE, cmd |-> "", data |-> NoData]
Raise(e) == [exc |-> e, isNone |-> TRUE, cmd |-> "", data |-> NoData]

\* Message.from_json(json_str)
from_json(body) ==
    LET d == JsonLoads(body) IN
    IF d.exc # "" THEN Raise(d.exc)                     \* json.loads is outside the try
    ELSE IF d.json # "object" THEN Raise("TypeError")   \* d["cmd"] on a list, number, null
    ELSE IF ~d.doc.c.has THEN NoneMsg                   \* KeyError, caught
    ELSE IF from_str(d.doc.c).exc # "" THEN NoneMsg     \* ValueError, caught
    ELSE IF ~d.doc.hasData THEN NoneMsg                 \* KeyError, caught
    ELSE [exc |-> "", isNone |-> FALSE, cmd |-> from_str(d.doc.c).cmd, data |-> d.doc.data]

ParseRaise(e) == [exc |-> e, send_id |-> 0, recv_id |-> 0, msg |-> NoneMsg]

\* ModelServer._parse_msg(payload)
_parse_msg(payload) ==
    LET tokens == Split2(payload)
        msg_id == PyInt(tokens[1])
    IN IF msg_id.exc # ""
       THEN [exc |-> "", send_id |-> -1, recv_id |-> -1, msg |-> NoneMsg]
       ELSE IF Len(tokens) < 2 THEN ParseRaise("IndexError")
       ELSE IF PyInt(tokens[2]).exc # ""
       THEN [exc |-> "", send_id |-> -1, recv_id |-> -1, msg |-> NoneMsg]
       ELSE IF Len(tokens) < 3 THEN ParseRaise("IndexError")
       ELSE LET msg == from_json(tokens[3]) IN
            IF msg.exc # "" THEN ParseRaise(msg.exc)
            ELSE [exc |-> "", send_id |-> msg_id.val, recv_id |-> PyInt(tokens[2]).val,
                  msg |-> msg]

(***************************************************************************)
(* Exceptions                                                              *)
(***************************************************************************)
\* classes caught by `except ValueError`
IsValueError(e) == e \in {"ValueError", "JSONDecodeError"}
\* classes caught by `except KeyError`
IsKeyError(e) == e = "KeyError"
\* classes caught by `except BaseException`
IsException_Base(e) == e # ""

\* classes caught by `except Exception` (KeyboardInterrupt is a BaseException only)
IsException(e) == e # "" /\ e # "KeyboardInterrupt"

(***************************************************************************)
(* The filesystem and the outside collaborators.                           *)
(* disk[f] is 0 when file f does not exist, -1 when it holds a truncated   *)
(* pickle, and v >= 1 when it holds the complete artifact v.               *)
(***************************************************************************)
Artifacts == 1..MaxVer

\* what happens outside the server during one train call
\*   dir:  "ok"; "nocreate": the save directory cannot be created;
\*         "readonly": the save directory exists and nothing can be written in it
\*   fit:  "" or the exception class the trainer raises; "KeyboardInterrupt": an
\*         interrupt arrives while the trainer runs
\*   dump: "ok" or "fails": pickle.dump raises after the file was opened
\*   model: the artifact the trainer returns
TrainEnvs ==
    {[dir |-> "ok", fit |-> "", dump |-> "ok", model |-> v] : v \in Artifacts}
    \cup {[dir |-> d, fit |-> "", dump |-> "ok", model |-> 1] : d \in {"nocreate", "readonly"}}
    \cup {[dir |-> "ok", fit |-> e, dump |-> "ok", model |-> 1] :
             e \in {"ValueError", "KeyError", "RuntimeError", "KeyboardInterrupt"}}
    \cup {[dir |-> "ok", fit |-> "", dump |-> "fails", model |-> 1]}

NoTrainEnv == [dir |-> "", fit |-> "", dump |-> "", model |-> 0]

\* what the loaded artifact does during one infer call
\*   "ok"; "submodel_None": model_map[opunit] is None;
\*   "predict_raises": predict raises ValueError;
\*   "interrupted": an interrupt arrives while predict runs
InferEnvs == {"ok", "submodel_None", "predict_raises", "interrupted"}

\* what happens during one PRINT: "" or "interrupted": an interrupt arrives while the
\* message is logged
PrintEnvs == {"", "interrupted"}

(***************************************************************************)
(* AbstractModel.model_cache: a dict.  Keys are Python objects: the str    *)
(* "m1" and the PosixPath("m1") are different keys (Path.__eq__ never      *)
(* equals a str).  0 stands for "no entry".                                *)
(***************************************************************************)
KeyObjs == {[cls |-> c, s |-> k] : c \in {"str", "PosixPath"}, k \in CacheKeys}
StrKey(k) == [cls |-> "str", s |-> k]
PathKey(k) == [cls |-> "PosixPath", s |-> k]

EmptyCache == [k \in KeyObjs |-> 0]

\* _load_model_from_disk(save_path) of the three handlers: pickle.load of the file
_load_model_from_disk(disk, save_path) ==
    IF disk[FileOf(save_path)] = -1
    THEN [exc |-> "EOFError", model |-> 0]
    ELSE [exc |-> "", model |-> disk[FileOf(save_path)]]

\* _load_model that looks the cache up with the string key it stores under
_load_model_StrLookup(c, n, disk, save_path) ==
    LET save_path_str == PathStr(save_path) IN
    IF disk[FileOf(save_path)] = 0
    THEN [exc |-> "", model |-> 0, cache |-> c, loads |-> n]
    ELSE IF c[StrKey(save_path_str)] # 0
    THEN [exc |-> "", model |-> c[StrKey(save_path_str)], cache |-> c, loads |-> n]
    ELSE LET m == _load_model_from_disk(disk, save_path)
             n2 == [n EXCEPT ![save_path_str] = @ + 1]
         IN IF m.exc # ""
            THEN [exc |-> m.exc, model |-> 0, cache |-> c, loads |-> n2]
            ELSE [exc |-> "", model |-> m.model,
                  cache |-> [c EXCEPT ![StrKey(save_path_str)] = m.model], loads |-> n2]

\* _load_model without the save_path.exists() test
_load_model_NoExistsCheck(c, n, disk, save_path) ==
    LET save_path_str == PathStr(save_path) IN
    IF c[PathKey(save_path_str)] # 0
    THEN [exc |-> "", model |-> c[StrKey(save_path_str)], cache |-> c, loads |-> n]
    ELSE LET m == _load_model_from_disk(disk, save_path)
             n2 == [n EXCEPT ![save_path_str] = @ + 1]
         IN IF m.exc # ""
            THEN [exc |-> m.exc, model |-> 0, cache |-> c, loads |-> n2]
            ELSE [exc |-> "", model |-> m.model,
                  cache |-> [c EXCEPT ![StrKey(save_path_str)] = m.model], loads |-> n2]

\* AbstractModel._load_model(save_path) on a handler with cache c and load counts n
\* model 0 is None
_load_model(c, n, disk, save_path) ==
    LET save_path_str == PathStr(save_path) IN
    IF disk[FileOf(save_path)] = 0                            \* not save_path.exists()
    THEN [exc |-> "", model |-> 0, cache |-> c, loads |-> n]
    ELSE IF c[PathKey(save_path_str)] # 0                     \* model_cache.get(save_path)
    THEN [exc |-> "", model |-> c[StrKey(save_path_str)], cache |-> c, loads |-> n]
    ELSE LET m == _load_model_from_disk(disk, save_path)
             n2 == [n EXCEPT ![save_path_str] = @ + 1]
         IN IF m.exc # ""
            THEN [exc |-> m.exc, model |-> 0, cache |-> c, loads |-> n2]
            ELSE [exc |-> "", model |-> m.model,
                  cache |-> [c EXCEPT ![StrKey(save_path_str)] = m.model], loads |-> n2]

(***************************************************************************)
(* The handlers' train                                                     *)
(***************************************************************************)
\* the train methods without the pickle.dump of the trained model
TrainBody_NoDump(data, env, disk, required, hasResultDir) ==
    LET fail(e, dk) == [exc |-> e, ok |-> FALSE, res |-> "", disk |-> dk]
    IN IF ~data.isObj THEN fail("TypeError", disk)
       ELSE IF ~(required \subseteq data.keys) THEN fail("KeyError", disk)
       ELSE IF env.dir = "nocreate"
            THEN [exc |-> "", ok |-> FALSE, res |-> "FAIL_PERMISSION_ERROR", disk |-> disk]
       ELSE IF env.dir = "readonly" /\ hasResultDir THEN fail("PermissionError", disk)
       ELSE IF env.fit # "" THEN fail(env.fit, disk)
       ELSE IF env.dir = "readonly" THEN fail("PermissionError", disk)
       ELSE [exc |-> "", ok |-> TRUE, res |-> "", disk |-> disk]

\* the part the three train methods share: read the fields, create the save
\* directory, (OU and interference) create the result directory, fit, dump
TrainBody(data, env, disk, required, hasResultDir) ==
    LET f == FileOf(data.path)
        fail(e, dk) == [exc |-> e, ok |-> FALSE, res |-> "", disk |-> dk]
    IN IF ~data.isObj THEN fail("TypeError", disk)
       ELSE IF ~(required \subseteq data.keys) THEN fail("KeyError", disk)
       ELSE IF env.dir = "nocreate"
            THEN [exc |-> "", ok |-> FALSE, res |-> "FAIL_PERMISSION_ERROR", disk |-> disk]
       ELSE IF env.dir = "readonly" /\ hasResultDir THEN fail("PermissionError", disk)
       ELSE IF env.fit # "" THEN fail(env.fit, disk)
       ELSE IF env.dir = "readonly" THEN fail("PermissionError", disk)
       ELSE IF env.dump = "fails" THEN fail("PicklingError", [disk EXCEPT ![f] = -1])
       ELSE [exc |-> "", ok |-> TRUE, res |-> "", disk |-> [disk EXCEPT ![f] = env.model]]

OUModel_train(data, env, disk) ==
    TrainBody(data, env, disk, TrainKeys["OPERATING_UNIT"], TRUE)

InterferenceModel_train(data, env, disk) ==
    TrainBody(data, env, disk, TrainKeys["INTERFERENCE"], TRUE)

ForecastModel_train(data, env, disk) ==
    TrainBody(data, env, disk, TrainKeys["FORECAST"], FALSE)

(***************************************************************************)
(* The handlers' infer                                                     *)
(***************************************************************************)
\* y_pred.tolist() of the predictions artifact v makes
Pred(v) == "y_pred_of_model_" \o ToString(v)

InferRaise(e, c, n) ==
    [exc |-> e, result |-> "", ok |-> FALSE, err |-> "", cache |-> c, loads |-> n]
InferRet(result, ok, err, c, n) ==
    [exc |-> "", result |-> result, ok |-> ok, err |-> err, cache |-> c, loads |-> n]

OUModel_infer(data, env, c, n, disk) ==
    IF ~data.isObj THEN InferRaise("TypeError", c, n)
    ELSE IF ~(InferKeys["OPERATING_UNIT"] \subseteq data.keys) THEN InferRaise("KeyError", c, n)
    ELSE LET model_map == _load_model(c, n, disk, data.path) IN
         IF model_map.exc # "" THEN InferRaise(model_map.exc, model_map.cache, model_map.loads)
         ELSE IF model_map.model = 0
         THEN InferRet("[]", FALSE, "MODEL_MAP_NOT_TRAINED", model_map.cache, model_map.loads)
         ELSE IF data.opunitJson # "string"
         THEN InferRet("[]", FALSE, "INVALID_OPUNIT", model_map.cache, model_map.loads)
         ELSE IF data.opunit \notin OpUnitNames
         THEN InferRet("[]", FALSE, "INVALID_OPUNIT", model_map.cache, model_map.loads)
         ELSE IF env = "submodel_None"
         THEN InferRet("[]", FALSE, "MODEL_NOT_FOUND", model_map.cache, model_map.loads)
         ELSE IF env = "predict_raises"
         THEN InferRaise("ValueError", model_map.cache, model_map.loads)
         ELSE IF env = "interrupted"
         THEN InferRaise("KeyboardInterrupt", model_map.cache, model_map.loads)
         ELSE InferRet(Pred(model_map.model), TRUE, "", model_map.cache, model_map.loads)

InterferenceModel_infer(data, env, c, n, disk) ==
    IF ~data.isObj THEN InferRaise("TypeError", c, n)
    ELSE IF ~(InferKeys["INTERFERENCE"] \subseteq data.keys) THEN InferRaise("KeyError", c, n)
    ELSE LET model == _load_model(c, n, disk, data.path) IN
         IF model.exc # "" THEN InferRaise(model.exc, model.cache, model.loads)
         ELSE IF model.model = 0
         THEN InferRet("[]", FALSE, "MODEL_MAP_NOT_TRAINED", model.cache, model.loads)
         ELSE IF env = "predict_raises"
         THEN InferRaise("ValueError", model.cache, model.loads)
         ELSE IF env = "interrupted"
         THEN InferRaise("KeyboardInterrupt", model.cache, model.loads)
         ELSE InferRet(Pred(model.model), TRUE, "", model.cache, model.loads)

ForecastModel_infer(data, env, c, n, disk) ==
    IF ~data.isObj THEN InferRaise("TypeError", c, n)
    ELSE IF ~(InferKeys["FORECAST"] \subseteq data.keys) THEN InferRaise("KeyError", c, n)
    ELSE LET models == _load_model(c, n, disk, data.path) IN
         IF models.exc # "" THEN InferRaise(models.exc, models.cache, models.loads)
         ELSE IF models.model = 0
         THEN InferRet("[]", FALSE, "MODELS_NOT_TRAINED", models.cache, models.loads)
         ELSE IF env = "predict_raises"
         THEN InferRaise("ValueError", models.cache, models.loads)
         ELSE IF env = "interrupted"
         THEN InferRaise("KeyboardInterrupt", models.cache, models.loads)
         ELSE InferRet(Pred(models.model), TRUE, "", models.cache, models.loads)

(***************************************************************************)
(* The dispatcher                                                          *)
(***************************************************************************)
\* class Callback
NOOP == 0
CONNECTED == 1

\* _make_response that tags every response with the CONNECTED callback
_make_response_Connected(action, result, success, err) ==
    [action |-> CONNECTED, result |-> result, success |-> success, err |-> err]

\* ModelServer._make_response(action, result, success, err)
_make_response(action, result, success, err) ==
    [action |-> action, result |-> result, success |-> success, err |-> err]

NoResponse == _make_response(NOOP, "", FALSE, "")

\* ModelType[data["type"]]
ModelTypeLookup(data) ==
    IF ~data.isObj THEN [exc |-> "TypeError", type |-> ""]
    ELSE IF "type" \notin data.keys THEN [exc |-> "KeyError", type |-> ""]
    ELSE IF data.typeJson = "array" THEN [exc |-> "TypeError", type |-> ""]
    ELSE IF data.typeJson # "string" \/ data.type \notin ModelTypeNames
    THEN [exc |-> "KeyError", type |-> ""]
    ELSE [exc |-> "", type |-> data.type]

\* self.model_managers[t].train(data)
HandlerTrain(t, data, env, disk) ==
    IF t = "OPERATING_UNIT" THEN OUModel_train(data, env, disk)
    ELSE IF t = "INTERFERENCE" THEN InterferenceModel_train(data, env, disk)
    ELSE ForecastModel_train(data, env, disk)

\* self.model_managers[t].infer(data)
HandlerInfer(t, data, env, c, n, disk) ==
    IF t = "OPERATING_UNIT" THEN OUModel_infer(data, env, c, n, disk)
    ELSE IF t = "INTERFERENCE" THEN InterferenceModel_infer(data, env, c, n, disk)
    ELSE ForecastModel_infer(data, env, c, n, disk)

\* ModelServer._infer(data); caches and loads are the three handlers'
_infer(data, env, caches, loads, disk) ==
    LET t == ModelTypeLookup(data) IN
    IF t.exc # ""
    THEN [exc |-> t.exc, result |-> "", ok |-> FALSE, err |-> "",
          caches |-> caches, loads |-> loads]
    ELSE LET r == HandlerInfer(t.type, data, env, caches[t.type], loads[t.type], disk)
         IN [exc |-> r.exc, result |-> r.result, ok |-> r.ok, err |-> r.err,
             caches |-> [caches EXCEPT ![t.type] = r.cache],
             loads |-> [loads EXCEPT ![t.type] = r.loads]]

\* the except clauses with the last one leaving err empty
TrainErr_EmptyErr(e) ==
    IF IsValueError(e) THEN "FAIL_MODEL_NOT_FOUND"
    ELSE IF IsKeyError(e) THEN "FAIL_DATA_FORMAT_ERROR"
    ELSE ""

\* the except clauses of the TRAIN branch, in their order
TrainErr(e) ==
    IF IsValueError(e) THEN "FAIL_MODEL_NOT_FOUND"
    ELSE IF IsKeyError(e) THEN "FAIL_DATA_FORMAT_ERROR"
    ELSE "FAIL_TRAINING_FAILED"

\* ModelServer._execute_cmd(cmd, data): the response, the continue flag, and
\* the caches, load counts and disk it leaves
_execute_cmd(cmd, data, tenv, ienv, caches, loads, disk) ==
    LET ret(resp, cont, cs, ls, dk) ==
            [exc |-> "", response |-> resp, cont |-> cont,
             caches |-> cs, loads |-> ls, disk |-> dk]
        raise(e, cs, ls, dk) ==
            [exc |-> e, response |-> NoResponse, cont |-> TRUE,
             caches |-> cs, loads |-> ls, disk |-> dk]
    IN
    IF cmd = "PRINT"
    THEN IF ~data.isObj THEN raise("TypeError", caches, loads, disk)
         ELSE IF "message" \notin data.keys THEN raise("KeyError", caches, loads, disk)
         ELSE IF ienv = "interrupted" THEN raise("KeyboardInterrupt", caches, loads, disk)
         ELSE ret(_make_response(NOOP, "MODEL_REPLY_" \o data.message, TRUE, ""), TRUE,
                  caches, loads, disk)
    ELSE IF cmd = "QUIT"
    THEN ret(_make_response(NOOP, "", TRUE, ""), FALSE, caches, loads, disk)
    ELSE IF cmd = "TRAIN"
    THEN LET t == ModelTypeLookup(data) IN
         IF t.exc # ""
         THEN ret(_make_response(NOOP, "", FALSE, TrainErr(t.exc)), TRUE, caches, loads, disk)
         ELSE LET r == HandlerTrain(t.type, data, tenv, disk) IN
              IF r.exc # "" /\ ~IsException(r.exc) THEN raise(r.exc, caches, loads, r.disk)
              ELSE IF r.exc # ""
              THEN ret(_make_response(NOOP, "", FALSE, TrainErr(r.exc)), TRUE,
                       caches, loads, r.disk)
              ELSE IF r.ok
              THEN ret(_make_response(NOOP, r.res, TRUE, ""), TRUE, caches, loads, r.disk)
              ELSE ret(_make_response(NOOP, "", FALSE, r.res), TRUE, caches, loads, r.disk)
    ELSE \* INFER: no try around it
         LET r == _infer(data, ienv, caches, loads, disk) IN
         IF r.exc # "" THEN raise(r.exc, r.caches, r.loads, disk)
         ELSE ret(_make_response(NOOP, r.result, r.ok, r.err), TRUE, r.caches, r.loads, disk)

(***************************************************************************)
(* The server: state                                                       *)
(***************************************************************************)
VARIABLES
    pc,           \* "recv": in run_loop, at self._recv(); "stopped": run_loop left by break;
                  \* "raised": an exception left run_loop; "killed": os._exit(-1)
    _closing,     \* self._closing
    inbox,        \* payloads waiting in the socket, oldest first
    sent,         \* the messages given to _send_msg, oldest first
    model_cache,  \* model_cache of each handler in self.model_managers
    loads,        \* calls of _load_model_from_disk, per handler and cache key
    disk,         \* the artifact files
    nrecv,        \* payloads taken from the socket so far
    last,         \* what the latest step of run_loop did
    arg,          \* the string handed to the parser under test
    out,          \* what the parser under test returned
    socket        \* "open": self.socket is connected; "closed": cleanup_zmq has run

vars == <<pc, _closing, inbox, sent, model_cache, loads, disk, nrecv, last, arg, out, socket>>

\* a byte that is not ASCII
NonAscii == {"<0xE9>"}

\* payload.decode("ascii") in _recv
Decodable(payload) == \A i \in 1..Len(payload) : payload[i] \notin NonAscii

\* _send_msg that writes the two ids in the opposite order
_send_msg_Swapped(send_id, recv_id, data) ==
    [send_id |-> recv_id, recv_id |-> send_id, data |-> data]

\* ModelServer._send_msg(send_id, recv_id, data): the message put on the socket
_send_msg(send_id, recv_id, data) == [send_id |-> send_id, recv_id |-> recv_id, data |-> data]

NotCalled == [fn |-> "", exc |-> "", send_id |-> 0, recv_id |-> 0, msg |-> NoneMsg]

Last(step, payload, p, exc, tenv, ienv) ==
    [step |-> step, payload |-> payload, cmd |-> p.msg.cmd, data |-> p.msg.data,
     send_id |-> p.send_id, recv_id |-> p.recv_id, exc |-> exc, tenv |-> tenv, ienv |-> ienv]

NoParse == [exc |-> "", send_id |-> 0, recv_id |-> 0, msg |-> NoneMsg]

\* ModelServer.__init__: connected, CONNECTED sent, handlers with empty caches
Constructed ==
    /\ pc = "recv"
    /\ _closing = FALSE
    /\ sent = <<_send_msg(0, 0, _make_response(CONNECTED, "", TRUE, ""))>>
    /\ model_cache = [t \in ModelTypeNames |-> EmptyCache]
    /\ loads = [t \in ModelTypeNames |-> [k \in CacheKeys |-> 0]]
    /\ nrecv = 0
    /\ last = Last("init", <<>>, NoParse, "", NoTrainEnv, "")
    /\ socket = "open"

\* the server starts with an empty socket; the artifact may exist from an earlier run
Init ==
    /\ Constructed
    /\ inbox = <<>>
    /\ disk \in [Files -> {0, 1}]
    /\ arg = <<>>
    /\ out = NotCalled

(***************************************************************************)
(* The payloads the peer sends                                             *)
(***************************************************************************)
Body(cmd, hasData, data) ==
    <<DocText([c |-> [has |-> TRUE, json |-> "string", cmd |-> cmd],
               hasData |-> hasData, data |-> data])>>

Envelope(sid, rid, body) == <<sid, "-", rid, "-">> \o body

OUTrain(p) == Obj(TrainKeys["OPERATING_UNIT"] \cup {"type"}, "OPERATING_UNIT", p, "")
OUInfer(p) == Obj(InferKeys["OPERATING_UNIT"] \cup {"type"}, "OPERATING_UNIT", p, "SEQ_SCAN")
BogusType == Obj(TrainKeys["OPERATING_UNIT"] \cup InferKeys["OPERATING_UNIT"] \cup {"type"},
                 "BOGUS", "m1", "SEQ_SCAN")

PrintOk == Obj({"message"}, "", "", "")

\* the payloads of the runs with several messages
ServerPayloads ==
    {Envelope("1", "2", Body("PRINT", TRUE, PrintOk)),
     Envelope("1", "2", Body("QUIT", TRUE, Obj({}, "", "", ""))),
     Envelope("1", "2", Body("NOPE", TRUE, PrintOk)),
     Envelope("1", "2", Body("PRINT", FALSE, NoData)),
     Envelope("a", "2", Body("PRINT", TRUE, PrintOk)),
     Envelope("1", "2", <<"{oops">>),
     Envelope("1", "2", <<"<0xE9>">>),
     Envelope("1", "2", Body("TRAIN", TRUE, OUTrain("m1"))),
     Envelope("2", "1", Body("INFER", TRUE, OUInfer("m1"))),
     Envelope("1", "2", Body("INFER", TRUE, OUInfer("/cwd/m1"))),
     Envelope("1", "2", Body("INFER", TRUE, OUInfer("./m1")))}

\* the payloads of the runs with one message: every body, and the malformed envelopes
OnePayloads ==
    {Envelope("1", "2", <<t>>) : t \in DocTexts \cup NonObjectTexts \cup {"{oops", "<0xE9>"}}
    \cup {Envelope("a", "2", Body("PRINT", TRUE, PrintOk)),
          Envelope("1", "a", Body("PRINT", TRUE, PrintOk)),
          Envelope("", "2", Body("PRINT", TRUE, PrintOk)),
          <<"1", "-", "2">>, <<"1">>, <<"a">>, <<>>, <<"1", "-", "2", "-">>,
          <<"1", "-", "2", "-", "1">>, <<"1", "-", "2", "-", "-", "1">>}

\* _parse_msg on the payloads the peer sends, computed once
Parsed == [p \in ServerPayloads \cup OnePayloads |-> _parse_msg(p)]

(***************************************************************************)
(* The server: steps of run_loop                                           *)
(***************************************************************************)
\* ModelServer.cleanup_zmq(): socket closed, context destroyed
cleanup_zmq(sock) == "closed"

\* the exit handlers run at every way out of the process
AtExit_EveryExit(pcAfter, sock) ==
    IF pcAfter # "recv" THEN cleanup_zmq(sock) ELSE sock

\* atexit.register(self.cleanup_zmq): the interpreter runs it when it exits, after
\* run_loop returned or an exception left it; os._exit runs no exit handler
AtExit(pcAfter, sock) ==
    IF pcAfter \in {"stopped", "raised"} THEN cleanup_zmq(sock) ELSE sock

\* AfterExecute without the break on cont = False
AfterExecute_NoBreak(exc, cont) ==
    IF exc # "" THEN "raised" ELSE "recv"

\* where run_loop is after _execute_cmd: an exception leaves it, cont = False breaks
AfterExecute(exc, cont) ==
    IF exc # "" THEN "raised" ELSE IF ~cont THEN "stopped" ELSE "recv"

\* ReachesSend with the send placed before the break
ReachesSend_BeforeBreak(exc, cont) == exc = ""

\* whether run_loop reaches self._send_msg(0, send_id, result)
ReachesSend(exc, cont) == exc = "" /\ cont

\* the peer puts a payload in the socket
PeerSend(p) ==
    /\ pc = "recv"
    /\ nrecv + Len(inbox) < MaxMsgs
    /\ Len(inbox) < MaxInbox
    /\ inbox' = Append(inbox, p)
    /\ UNCHANGED <<pc, _closing, sent, model_cache, loads, disk, nrecv, last, arg, out, socket>>

\* KeyboardInterrupt handled without the grace period: the first one ends the process
RecvInterrupt_OneStage ==
    /\ pc = "recv"
    /\ pc' = "killed"
    /\ _closing' = TRUE
    /\ last' = Last("interrupt", <<>>, NoParse, "KeyboardInterrupt", NoTrainEnv, "")
    /\ socket' = AtExit(pc', socket)
    /\ UNCHANGED <<inbox, sent, model_cache, loads, disk, nrecv, arg, out>>

\* KeyboardInterrupt raised in self._recv()
RecvInterrupt ==
    /\ pc = "recv"
    /\ IF _closing
       THEN /\ pc' = "killed"
            /\ UNCHANGED _closing
       ELSE /\ _closing' = TRUE
            /\ UNCHANGED pc
    /\ last' = Last("interrupt", <<>>, NoParse, "KeyboardInterrupt", NoTrainEnv, "")
    /\ socket' = AtExit(pc', socket)
    /\ UNCHANGED <<inbox, sent, model_cache, loads, disk, nrecv, arg, out>>

\* self._recv() raises UnicodeError: the payload is dropped
RecvUndecodable ==
    /\ pc = "recv"
    /\ inbox # <<>>
    /\ ~Decodable(Head(inbox))
    /\ inbox' = Tail(inbox)
    /\ nrecv' = nrecv + 1
    /\ last' = Last("undecodable", Head(inbox), NoParse, "UnicodeError", NoTrainEnv, "")
    /\ UNCHANGED <<pc, _closing, sent, model_cache, loads, disk, arg, out, socket>>

\* _parse_msg returns no message: continue
RecvDropped ==
    /\ pc = "recv"
    /\ inbox # <<>>
    /\ Decodable(Head(inbox))
    /\ LET p == Parsed[Head(inbox)] IN
       /\ p.exc = ""
       /\ p.msg.isNone
       /\ last' = Last("dropped", Head(inbox), p, "", NoTrainEnv, "")
    /\ inbox' = Tail(inbox)
    /\ nrecv' = nrecv + 1
    /\ UNCHANGED <<pc, _closing, sent, model_cache, loads, disk, arg, out, socket>>

\* _parse_msg raises: nothing in run_loop catches it
RecvParseRaises ==
    /\ pc = "recv"
    /\ inbox # <<>>
    /\ Decodable(Head(inbox))
    /\ LET p == Parsed[Head(inbox)] IN
       /\ p.exc # ""
       /\ last' = Last("raised", Head(inbox), p, p.exc, NoTrainEnv, "")
    /\ pc' = "raised"
    /\ socket' = AtExit(pc', socket)
    /\ inbox' = Tail(inbox)
    /\ nrecv' = nrecv + 1
    /\ UNCHANGED <<_closing, sent, model_cache, loads, disk, arg, out>>

\* Execute that takes the newest waiting payload in place of the oldest
Execute_Newest(cmd, tenv, ienv) ==
    /\ pc = "recv"
    /\ inbox # <<>>
    /\ Decodable(inbox[Len(inbox)])
    /\ LET p == Parsed[inbox[Len(inbox)]] IN
       /\ p.exc = ""
       /\ ~p.msg.isNone
       /\ p.msg.cmd = cmd
       /\ \E r \in {_execute_cmd(cmd, p.msg.data, tenv, ienv, model_cache, loads, disk)} :
          /\ pc' = AfterExecute(r.exc, r.cont)
          /\ socket' = AtExit(pc', socket)
          /\ sent' = IF ReachesSend(r.exc, r.cont)
                     THEN Append(sent, _send_msg(0, p.send_id, r.response))
                     ELSE sent
          /\ model_cache' = r.caches
          /\ loads' = r.loads
          /\ disk' = r.disk
          /\ last' = Last(IF r.exc # "" THEN "raised"
                          ELSE IF ReachesSend(r.exc, r.cont) THEN "replied" ELSE "quit",
                          inbox[Len(inbox)], p, r.exc, tenv, ienv)
    /\ inbox' = SubSeq(inbox, 1, Len(inbox) - 1)
    /\ nrecv' = nrecv + 1
    /\ UNCHANGED <<_closing, arg, out>>

\* a message was parsed: _execute_cmd, then break or _send_msg
Execute(cmd, tenv, ienv) ==
    /\ pc = "recv"
    /\ inbox # <<>>
    /\ Decodable(Head(inbox))
    /\ LET p == Parsed[Head(inbox)] IN
       /\ p.exc = ""
       /\ ~p.msg.isNone
       /\ p.msg.cmd = cmd
       /\ \E r \in {_execute_cmd(cmd, p.msg.data, tenv, ienv, model_cache, loads, disk)} :
          /\ pc' = AfterExecute(r.exc, r.cont)
          /\ socket' = AtExit(pc', socket)
          /\ sent' = IF ReachesSend(r.exc, r.cont)
                     THEN Append(sent, _send_msg(0, p.send_id, r.response))
                     ELSE sent
          /\ model_cache' = r.caches
          /\ loads' = r.loads
          /\ disk' = r.disk
          /\ last' = Last(IF r.exc # "" THEN "raised"
                          ELSE IF ReachesSend(r.exc, r.cont) THEN "replied" ELSE "quit",
                          Head(inbox), p, r.exc, tenv, ienv)
    /\ inbox' = Tail(inbox)
    /\ nrecv' = nrecv + 1
    /\ UNCHANGED <<_closing, arg, out>>

ExecPrint == \E penv \in PrintEnvs : Execute("PRINT", NoTrainEnv, penv)
ExecQuit == Execute("QUIT", NoTrainEnv, "")
ExecTrain == \E tenv \in TrainEnvs : Execute("TRAIN", tenv, "")
ExecInfer == \E ienv \in InferEnvs : Execute("INFER", NoTrainEnv, ienv)

Next ==
    \/ \E p \in ServerPayloads : PeerSend(p)
    \/ RecvInterrupt
    \/ RecvUndecodable
    \/ RecvDropped
    \/ RecvParseRaises
    \/ ExecPrint
    \/ ExecQuit
    \/ ExecTrain
    \/ ExecInfer

Spec == Init /\ [][Next]_vars

\* one message is waiting when run_loop starts; the peer sends nothing more
InitOne ==
    /\ Constructed
    /\ inbox \in {<<p>> : p \in OnePayloads}
    /\ disk \in [Files -> {0, 1}]
    /\ arg = <<>>
    /\ out = NotCalled

NextOne ==
    \/ RecvInterrupt
    \/ RecvUndecodable
    \/ RecvDropped
    \/ RecvParseRaises
    \/ ExecPrint
    \/ ExecQuit
    \/ ExecTrain
    \/ ExecInfer

SpecOne == InitOne /\ [][NextOne]_vars

(***************************************************************************)
(* The parser on its own: _parse_msg and from_json applied to one string   *)
(***************************************************************************)
RECURSIVE SeqsUpTo(_, _)
SeqsUpTo(S, n) ==
    IF n = 0 THEN {<<>>}
    ELSE LET shorter == SeqsUpTo(S, n - 1)
         IN shorter \cup {Append(q, c) : q \in shorter, c \in S}

ParseDocs == {[c |-> c, hasData |-> TRUE, data |-> d] :
                 c \in CmdParts, d \in {NoData, Obj({}, "", "", ""), PrintOk, OUTrain("m1")}}
             \cup {[c |-> c, hasData |-> FALSE, data |-> NoData] : c \in CmdParts}

ParseBodies == {<<>>}
               \cup {<<DocText(doc)>> : doc \in ParseDocs}
               \cup {<<t>> : t \in NonObjectTexts \cup {"{oops"}}

ParsePayloads == {pre \o body : pre \in SeqsUpTo(IdChars, MaxPre), body \in ParseBodies}

InitParse ==
    /\ Constructed
    /\ inbox = <<>>
    /\ disk = [f \in Files |-> 0]
    /\ arg \in ParsePayloads
    /\ out = NotCalled

CallParseMsg ==
    /\ out.fn = ""
    /\ LET r == _parse_msg(arg) IN
       out' = [fn |-> "_parse_msg", exc |-> r.exc, send_id |-> r.send_id,
               recv_id |-> r.recv_id, msg |-> r.msg]
    /\ UNCHANGED <<pc, _closing, inbox, sent, model_cache, loads, disk, nrecv, last, arg, socket>>

CallFromJson ==
    /\ out.fn = ""
    /\ LET m == from_json(arg) IN
       out' = [fn |-> "from_json", exc |-> m.exc, send_id |-> 0, recv_id |-> 0, msg |-> m]
    /\ UNCHANGED <<pc, _closing, inbox, sent, model_cache, loads, disk, nrecv, last, arg, socket>>

NextParse == CallParseMsg \/ CallFromJson

SpecParse == InitParse /\ [][NextParse]_vars

(***************************************************************************)
(* The envelope round trip: a string formatted as _send_msg formats it,    *)
(* given to _parse_msg                                                     *)
(***************************************************************************)
RoundIds == (0 - MaxId)..MaxId

\* bodies to carry: the parser's bodies and bodies that hold '-' themselves
RoundBodies ==
    ParseBodies
    \cup {<<"-", "1">>, <<"1", "-", "2">>, <<"-">>, <<"a", "-", "-", "a">>}
    \cup {<<DocText(doc), "-", DocText(doc)>> : doc \in {d \in ParseDocs : d.data = PrintOk}}
    \cup {PaddedText(doc) : doc \in {d \in ParseDocs : d.data = PrintOk}}

\* last holds the ids and the body that were formatted, arg the formatted string
InitRound ==
    /\ pc = "recv"
    /\ _closing = FALSE
    /\ sent = <<_send_msg(0, 0, _make_response(CONNECTED, "", TRUE, ""))>>
    /\ model_cache = [t \in ModelTypeNames |-> EmptyCache]
    /\ loads = [t \in ModelTypeNames |-> [k \in CacheKeys |-> 0]]
    /\ nrecv = 0
    /\ inbox = <<>>
    /\ disk = [f \in Files |-> 0]
    /\ socket = "open"
    /\ \E s \in RoundIds, r \in RoundIds, body \in RoundBodies :
          /\ last = Last("formatted", body,
                         [exc |-> "", send_id |-> s, recv_id |-> r, msg |-> NoneMsg],
                         "", NoTrainEnv, "")
          /\ arg = WireMsg(s, r, body)
    /\ out = NotCalled

SpecRound == InitRound /\ [][CallParseMsg]_vars

(***************************************************************************)
(* Properties                                                              *)
(***************************************************************************)
\* the latest message given to _send_msg
LastSent == sent[Len(sent)]

\* this step took a payload from the socket
Received == nrecv' = nrecv + 1

\* C1: one handler's disk loader runs at most once for one artifact path, however
\* many INFER requests name that path.
C1_LoaderAtMostOncePerPath ==
    \A t \in ModelTypeNames : \A k \in CacheKeys : loads[t][k] <= 1

\* C2: a step that receives a valid TRAIN, INFER or PRINT command sends exactly one
\* reply and returns to the receive, whatever the data mapping holds.
C2_ExactlyOneReply ==
    [][(Received /\ last'.cmd \in {"TRAIN", "INFER", "PRINT"} /\ last'.data.isObj)
          => (sent' = Append(sent, LastSent') /\ LastSent'.data.action = NOOP /\ pc' = "recv")]_vars

\* C3: run_loop is left only by a QUIT command or by an interrupt that finds the
\* closing flag set.
C3_StopsOnlyOnQuitOrSecondInterrupt ==
    pc # "recv" => \/ (pc = "stopped" /\ last.cmd = "QUIT")
                   \/ (pc = "killed" /\ _closing /\ last.step = "interrupt")

\* C4 as stated: the step that receives a valid QUIT sends a success Response with an
\* empty result to the sender of the QUIT.
C4_QuitReplySent ==
    [][(Received /\ last'.cmd = "QUIT")
          => (/\ sent' = Append(sent, LastSent')
              /\ LastSent' = _send_msg(0, last'.send_id, _make_response(NOOP, "", TRUE, "")))]_vars

\* C4 amended: for a valid QUIT _execute_cmd returns a success Response with an empty
\* result and cont = False, and run_loop leaves the loop without sending it: nothing
\* is sent for QUIT.
C4_QuitReplyBuiltNotSent ==
    [][(Received /\ last'.cmd = "QUIT")
          => (/\ \A tenv \in TrainEnvs \cup {NoTrainEnv} : \A ienv \in InferEnvs \cup {""} :
                    LET r == _execute_cmd("QUIT", last'.data, tenv, ienv, model_cache, loads, disk)
                    IN r.exc = "" /\ ~r.cont
                       /\ r.response = _make_response(NOOP, "", TRUE, "")
              /\ sent' = sent
              /\ pc' = "stopped")]_vars

\* a QUIT was received and the loop was left
C4_Witness == pc = "stopped" /\ last.cmd = "QUIT" /\ last.step = "quit" /\ Len(sent) >= 2

\* C5: once a QUIT has been dispatched nothing is received, dispatched, sent or
\* changed by a handler; what waits behind the QUIT stays in the socket.
C5_NothingAfterQuit ==
    [][last.cmd = "QUIT"
          => UNCHANGED <<pc, nrecv, inbox, sent, model_cache, loads, disk, last>>]_vars

\* a QUIT was dispatched while another command waited behind it
C5_Witness == last.cmd = "QUIT" /\ pc = "stopped" /\ inbox # <<>>

\* an envelope with a non-integer id field or fewer than three segments
Malformed(payload) ==
    LET tokens == Split2(payload) IN
    \/ Len(tokens) < 3
    \/ PyInt(tokens[1]).exc # ""
    \/ PyInt(tokens[2]).exc # ""

\* C6: _parse_msg returns (-1, -1, None) and raises nothing for every malformed envelope.
C6_MalformedEnvelopeSoftFail ==
    (out.fn = "_parse_msg" /\ Malformed(arg))
        => (out.exc = "" /\ out.send_id = -1 /\ out.recv_id = -1 /\ out.msg.isNone)

\* C7: from_json raises nothing; it returns None or a Message with a known command
\* and a data object.
C7_FromJsonMessageOrNone ==
    out.fn = "from_json"
        => /\ out.exc = ""
           /\ (out.msg.isNone \/ (out.msg.cmd \in CommandNames /\ out.msg.data.isObj))

\* the id fields of the envelope are there and one of them is not an integer
NonIntegerIds(payload) ==
    LET tokens == Split2(payload) IN
    \/ PyInt(tokens[1]).exc # ""
    \/ (Len(tokens) >= 2 /\ PyInt(tokens[2]).exc # "")

\* the body is a JSON object with an unknown cmd string, or without cmd or data
UnknownOrIncompleteBody(payload) ==
    LET tokens == Split2(payload) IN
    /\ Len(tokens) = 3
    /\ PyInt(tokens[1]).exc = ""
    /\ PyInt(tokens[2]).exc = ""
    /\ Len(tokens[3]) = 1
    /\ tokens[3][1] \in DocTexts
    /\ LET doc == DocTable[tokens[3][1]] IN
       \/ ~doc.c.has
       \/ ~doc.hasData
       \/ (doc.c.json = "string" /\ doc.c.cmd \notin CommandNames)

\* C8: a message with a non-integer id field, or whose JSON object body has an unknown
\* cmd string or lacks cmd or data, is dropped: nothing is sent, no cache, load count
\* or file changes, and the loop is back at the receive.
C8_BadMessageDropped ==
    [][(Received /\ (NonIntegerIds(Head(inbox)) \/ UnknownOrIncompleteBody(Head(inbox))))
          => (/\ inbox' = Tail(inbox)
              /\ sent' = sent
              /\ model_cache' = model_cache
              /\ loads' = loads
              /\ disk' = disk
              /\ last'.step = "dropped"
              /\ pc' = "recv")]_vars

\* both kinds of bad message were received and dropped, with a cache already filled
C8_Witness ==
    /\ last.step = "dropped"
    /\ UnknownOrIncompleteBody(last.payload)
    /\ pc = "recv"
    /\ \E t \in ModelTypeNames : \E k \in KeyObjs : model_cache[t][k] # 0

\* data holds a type that names no ModelType
UnresolvableType(data) ==
    /\ data.isObj
    /\ "type" \in data.keys
    /\ ~(data.typeJson = "string" /\ data.type \in ModelTypeNames)

\* C9: a TRAIN whose type is present and names no ModelType is answered with
\* success = false and err = FAIL_MODEL_NOT_FOUND, and the loop continues.
C9_UnknownTypeIsModelNotFound ==
    (last.cmd = "TRAIN" /\ UnresolvableType(last.data))
        => /\ last.step = "replied"
           /\ LastSent.data = _make_response(NOOP, "", FALSE, "FAIL_MODEL_NOT_FOUND")
           /\ pc = "recv"

\* data is a complete TRAIN request for a registered type
CompleteTrain(data) ==
    /\ data.isObj
    /\ "type" \in data.keys
    /\ data.typeJson = "string"
    /\ data.type \in ModelTypeNames
    /\ TrainKeys[data.type] \subseteq data.keys

\* something raised inside train, other than the permission failure on the directory
TrainRaises(env) == env.fit # "" \/ env.dump = "fails" \/ env.dir = "readonly"

\* C10: a complete TRAIN for a registered type whose train raises is answered with
\* success = false and err = FAIL_TRAINING_FAILED, whatever the exception class.
C10_TrainFailureIsTrainingFailed ==
    (last.cmd = "TRAIN" /\ CompleteTrain(last.data) /\ TrainRaises(last.tenv))
        => /\ last.step = "replied"
           /\ LastSent.data = _make_response(NOOP, "", FALSE, "FAIL_TRAINING_FAILED")

\* the save directory cannot be created, or exists and cannot be written
NoPermission(env) == env.dir \in {"nocreate", "readonly"}

\* C11: a complete TRAIN whose save directory cannot be created or is not writable is
\* answered with success = false and err = FAIL_PERMISSION_ERROR, and no artifact is
\* written.
C11_NoPermissionIsPermissionError ==
    [][(Received /\ last'.cmd = "TRAIN" /\ CompleteTrain(last'.data) /\ NoPermission(last'.tenv))
          => (/\ sent' = Append(sent, LastSent')
              /\ LastSent'.data = _make_response(NOOP, "", FALSE, "FAIL_PERMISSION_ERROR")
              /\ disk' = disk)]_vars

\* an operating-unit INFER that carries every field OUModel.infer reads
CompleteOUInfer(data) ==
    /\ data.isObj /\ "type" \in data.keys
    /\ data.typeJson = "string" /\ data.type = "OPERATING_UNIT"
    /\ InferKeys["OPERATING_UNIT"] \subseteq data.keys

\* the latest message was an operating-unit INFER naming a path with no file on disk
OUInferOnMissingFile ==
    /\ last.cmd = "INFER" /\ CompleteOUInfer(last.data)
    /\ disk[FileOf(last.data.path)] = 0

\* C12: an operating-unit INFER whose model_path has no file on disk is answered with
\* success = false and err = MODEL_MAP_NOT_TRAINED whatever opunit holds, leaves the
\* handler's cache without an entry for the path, and never runs the disk loader.
C12_MissingFileIsNotTrained ==
    OUInferOnMissingFile =>
        /\ last.step = "replied"
        /\ LastSent.data = _make_response(NOOP, "[]", FALSE, "MODEL_MAP_NOT_TRAINED")
        /\ \A k \in KeyObjs :
              k.s = PathStr(last.data.path) => model_cache["OPERATING_UNIT"][k] = 0
        /\ loads["OPERATING_UNIT"][PathStr(last.data.path)] = 0

C12_Witness ==
    /\ OUInferOnMissingFile /\ last.step = "replied"
    /\ last.data.opunit = "BOGUS"
    /\ LastSent.data.err = "MODEL_MAP_NOT_TRAINED"

\* C13: every Response the server has sent, the handshake and every reply, has an
\* empty err exactly when success is true.
C13_ErrEmptyIffSuccess ==
    \A i \in DOMAIN sent : (sent[i].data.err = "") <=> sent[i].data.success

C13_Witness ==
    /\ Len(sent) = 2 /\ sent[1].data.success
    /\ ~sent[2].data.success /\ sent[2].data.err = "FAIL_TRAINING_FAILED"

\* C14: the first message sent is the CONNECTED response (action 1, success) to
\* receiver id 0, it is there before anything is received, and every message sent
\* after it carries action NOOP.
C14_ConnectedFirstAndOnce ==
    /\ Len(sent) >= 1
    /\ sent[1] = _send_msg(0, 0, [action |-> 1, result |-> "", success |-> TRUE, err |-> ""])
    /\ nrecv = 0 => Len(sent) = 1
    /\ \A i \in 2..Len(sent) : sent[i].data.action = 0

C14_Witness ==
    /\ nrecv >= 2 /\ Len(sent) >= 3
    /\ sent[1].data.action = CONNECTED /\ sent[3].data.action = NOOP

\* C15 as claimed: a reply's sender id is the request's receiver id and its receiver id
\* is the request's sender id.
C15_ReplyIdsSwapped ==
    last.step = "replied" =>
        /\ LastSent.send_id = last.recv_id
        /\ LastSent.recv_id = last.send_id

\* C15: a reply's receiver id is the request's sender id, and its sender id is always 0,
\* whatever receiver id the request carried.
C15_ReplyToSenderFromZero ==
    last.step = "replied" =>
        /\ LastSent.send_id = 0
        /\ LastSent.recv_id = last.send_id

C15_Witness ==
    /\ last.step = "replied" /\ last.send_id = 2 /\ last.recv_id = 1
    /\ LastSent.send_id = 0 /\ LastSent.recv_id = 2

\* the step is an interrupt of the blocking receive: nothing is taken from the socket
Interrupted == last'.step = "interrupt" /\ inbox' = inbox /\ nrecv' = nrecv

\* C16: the first interrupt of the blocking receive only sets the closing flag and the
\* loop goes on receiving; an interrupt while the flag is set ends the process at once;
\* receiving and processing a message neither clears the flag nor ends the process
\* because of it, and the flag, once set, stays set.
C16_TwoStageInterrupt ==
    [][/\ _closing => _closing'
       /\ (Interrupted /\ ~_closing) =>
              /\ _closing' /\ pc' = "recv"
              /\ UNCHANGED <<sent, model_cache, loads, disk>>
       /\ (Interrupted /\ _closing) => pc' = "killed"
       /\ Received => (_closing' = _closing /\ pc' # "killed")
       /\ (pc' = "killed" /\ pc # "killed") => (Interrupted /\ _closing)]_vars

C16_Witness ==
    /\ pc = "killed" /\ _closing /\ last.step = "interrupt"
    /\ nrecv >= 2 /\ Len(sent) >= 3

\* _parse_msg gave back the ids and the body that were formatted into arg: the split
\* yields the two id strings and the whole body, the id strings convert to the ids, and
\* the call ends as Message.from_json of the body ends, returning the ids with its message
RoundTrip ==
    LET tokens == Split2(arg)
        msg == from_json(last.payload)
    IN /\ Len(tokens) = 3
       /\ PyInt(tokens[1]) = [exc |-> "", val |-> last.send_id]
       /\ PyInt(tokens[2]) = [exc |-> "", val |-> last.recv_id]
       /\ tokens[3] = last.payload
       /\ out.exc = msg.exc
       /\ out.exc = "" =>
             /\ out.send_id = last.send_id
             /\ out.recv_id = last.recv_id
             /\ out.msg = msg

\* C17 as claimed: the round trip holds for all integer ids, negative ones included, and
\* every body.
C17_RoundTripAllIntegers ==
    out.fn = "_parse_msg" => RoundTrip

\* C17: the round trip holds for all non-negative integer ids and every body, bodies
\* holding '-' included.
C17_RoundTripNonNegative ==
    (out.fn = "_parse_msg" /\ last.send_id >= 0 /\ last.recv_id >= 0) => RoundTrip

C17_Witness ==
    /\ out.fn = "_parse_msg" /\ last.send_id = 10 /\ last.recv_id = 2
    /\ \E i \in 1..Len(last.payload) : last.payload[i] = "-"
    /\ out.exc = "" /\ out.send_id = 10 /\ ~out.msg.isNone

\* C18 as claimed: however the process ended (QUIT, an uncaught exception, the second
\* interrupt), cleanup_zmq has run and the socket is released.
C18_CleanupOnEveryExit ==
    pc # "recv" => socket = "closed"

\* C18: after QUIT and after an uncaught exception cleanup_zmq has run and the socket is
\* released; after the abrupt termination on the second interrupt it has not run and
\* the socket is left as it was; while the loop runs the socket is open.
C18_CleanupUnlessKilled ==
    /\ pc \in {"stopped", "raised"} => socket = "closed"
    /\ pc \in {"killed", "recv"} => socket = "open"

C18_Witness ==
    /\ pc = "killed" /\ _closing /\ socket = "open" /\ nrecv >= 1

\* the keys of handler t's cache that hold a model of file f
EntriesOf(t, f) == {k \in KeyObjs : model_cache[t][k] # 0 /\ FileOf(k.s) = f}

\* what handler t's cache holds under the string s, 0 when nothing
EntryAt(t, s) ==
    LET k == [cls |-> "str", s |-> s]
    IN IF k \in DOMAIN model_cache[t] THEN model_cache[t][k] ELSE 0

\* the latest message was an INFER that handler t answered with a prediction
Inferred(t) ==
    /\ last.cmd = "INFER" /\ last.step = "replied" /\ LastSent.data.success
    /\ last.data.type = t

Trained == last.cmd = "TRAIN" /\ last.step = "replied" /\ LastSent.data.success

C21_OneAtATimeInOrder ==
    [][/\ Received =>
              /\ inbox # <<>>
              /\ inbox' = Tail(inbox)
              /\ last'.payload = Head(inbox)
       /\ sent' # sent =>
              /\ Received /\ last'.step = "replied"
              /\ sent' = Append(sent, LastSent')
              /\ LastSent'.recv_id = Parsed[Head(inbox)].send_id
       /\ (Received /\ last'.step = "replied") => Len(sent') = Len(sent) + 1
       /\ Len(sent') - 1 <= nrecv']_vars

\* two commands of different senders answered in their order while a third waits
C21_Witness ==
    /\ Len(sent) = 3 /\ nrecv = 2 /\ Len(inbox) = 1
    /\ sent[2].recv_id = 2 /\ sent[3].recv_id = 1

\* C22: a TRAIN whose persisting fails after save_path was opened leaves no partially
\* written file at save_path, and an artifact that was valid there before is intact.
C22_PersistIsAtomic ==
    [][(Received /\ last'.cmd = "TRAIN" /\ CompleteTrain(last'.data)
           /\ last'.tenv.dump = "fails")
          => (/\ disk'[FileOf(last'.data.path)] # -1
              /\ disk[FileOf(last'.data.path)] >= 1
                    => disk'[FileOf(last'.data.path)] = disk[FileOf(last'.data.path)])]_vars

InterruptedInCommand ==
    /\ Received
    /\ \/ /\ last'.cmd = "TRAIN" /\ CompleteTrain(last'.data)
          /\ last'.tenv.fit = "KeyboardInterrupt"
       \/ /\ last'.cmd = "INFER" /\ last'.ienv = "interrupted"
          /\ LET r == _execute_cmd("INFER", last'.data, NoTrainEnv, "ok",
                                   model_cache, loads, disk)
             IN r.exc = "" /\ r.response.success
       \/ /\ last'.cmd = "PRINT" /\ last'.ienv = "interrupted"
          /\ last'.data.isObj /\ "message" \in last'.data.keys

\* C24: an interrupt that arrives while a TRAIN, INFER or PRINT command executes is
\* caught nowhere, whether or not the closing flag is set: the KeyboardInterrupt
\* leaves run_loop, the flag is left as it was, and no reply is sent for the command.
C24_InterruptInCommandEndsLoop ==
    [][InterruptedInCommand =>
          /\ last'.exc = "KeyboardInterrupt"
          /\ pc' = "raised"
          /\ sent' = sent
          /\ _closing' = _closing]_vars

\* the first interrupt of the run, arriving in the trainer: run_loop is left, no reply
C24_Witness ==
    /\ pc = "raised" /\ ~_closing
    /\ last.cmd = "TRAIN" /\ last.tenv.fit = "KeyboardInterrupt"
    /\ last.exc = "KeyboardInterrupt" /\ Len(sent) = 1

====
